---- MODULE Spec2Model ----
(***************************************************************************)
(* A model of the client core of the school map (static/js/main.js):       *)
(* cluster icon colouring, dataset loading, search and navigation.         *)
(*                                                                         *)
(* Strings are sequences of one-character strings, so that escaping,       *)
(* lower-casing, substring search and attribute parsing are computed       *)
(* character by character as the browser computes them.                    *)
(***************************************************************************)
EXTENDS Integers, Sequences, FiniteSets, TLC

(***************************************************************************)
(* Bounds of the model.                                                    *)
(***************************************************************************)
\* the largest number of child markers of a cluster
MaxCluster == 5
\* the longest school name and the longest query handed to highlightMatch
MaxTextLen == 4
MaxQueryLen == 2
\* the longest school list of a fetched data set
MaxSchools == 2
\* the longest school list that is tried in every order under the search box
MaxListed == 2
\* how many schools more than maxResults the long school lists reach
ExtraLong == 1
\* the largest number of navigations whose popup is still to open
MaxTimers == 1
MaxHistory == 2
MaxLegendTimers == 2
\* the largest number of pending callbacks when selections follow each other
MaxSelections == 2

(***************************************************************************)
(* Colours of the data set (school.color) and of the cluster icon.         *)
(***************************************************************************)
Red == "#d73027"
Orange == "#fc8d59"
LightGreen == "#91cf60"
DarkGreen == "#1a9850"
Gray == "#999999"
\* a colour string that is none of the five above
OtherColor == "#000000"
\* school.color absent from the record: marker.options.fillColor is undefined
Undefined == "undefined"

ClassifierColors == {Red, Orange, LightGreen, DarkGreen, Gray}
Colors == ClassifierColors \cup {OtherColor, Undefined}

\* the sequences over S of length at most n
RECURSIVE SeqsUpTo(_, _)
SeqsUpTo(S, n) ==
    IF n = 0 THEN {<<>>}
    ELSE LET shorter == SeqsUpTo(S, n - 1)
         IN  shorter \cup {Append(s, x) : s \in shorter, x \in S}

(***************************************************************************)
(* Strings: sequences of one-character strings.                            *)
(***************************************************************************)
UpperLetters == <<"A", "B", "C", "D", "E", "F", "G", "H", "I", "J", "K", "L", "M",
                  "N", "O", "P", "Q", "R", "S", "T", "U", "V", "W", "X", "Y", "Z">>
LowerLetters == <<"a", "b", "c", "d", "e", "f", "g", "h", "i", "j", "k", "l", "m",
                  "n", "o", "p", "q", "r", "s", "t", "u", "v", "w", "x", "y", "z">>

IsUpper(c) == \E i \in DOMAIN UpperLetters : UpperLetters[i] = c

\* every character of the model
Chars ==
    {UpperLetters[i] : i \in DOMAIN UpperLetters}
    \cup {LowerLetters[i] : i \in DOMAIN LowerLetters}
    \cup {" ", "\"", "&", ".", ";", "<", ">", "|", "\\",
          "0", "1", "2", "3", "4", "5", "6", "7", "8", "9"}

LowerOf ==
    [c \in Chars |->
        IF IsUpper(c)
        THEN LowerLetters[CHOOSE i \in DOMAIN UpperLetters : UpperLetters[i] = c]
        ELSE c]

toLowerChar(c) == LowerOf[c]

\* String.prototype.toLowerCase
toLowerCase(s) == [i \in DOMAIN s |-> toLowerChar(s[i])]

\* String.prototype.includes
includes(s, q) ==
    \E i \in 1..(Len(s) - Len(q) + 1) : SubSeq(s, i, i + Len(q) - 1) = q

\* String.prototype.startsWith
startsWith(s, q) == Len(q) <= Len(s) /\ SubSeq(s, 1, Len(q)) = q

\* String.prototype.trim, for the blank " "
RECURSIVE trimStart(_)
trimStart(s) ==
    IF s # <<>> /\ Head(s) = " " THEN trimStart(Tail(s)) ELSE s

RECURSIVE trimEnd(_)
trimEnd(s) ==
    IF s # <<>> /\ s[Len(s)] = " " THEN trimEnd(SubSeq(s, 1, Len(s) - 1)) ELSE s

trim(s) == trimEnd(trimStart(s))

(***************************************************************************)
(* escapeHtml, lines 361-365: the text is stored as a text node and read   *)
(* back as innerHTML, which serialises & < > as entities and leaves every  *)
(* other character, the double quote included, as it is.                   *)
(***************************************************************************)
escapeHtmlChar(c) ==
    IF c = "&" THEN <<"&", "a", "m", "p", ";">>
    ELSE IF c = "<" THEN <<"&", "l", "t", ";">>
    ELSE IF c = ">" THEN <<"&", "g", "t", ";">>
    ELSE <<c>>

RECURSIVE escapeHtml(_)
escapeHtml(text) ==
    IF text = <<>> THEN <<>>
    ELSE escapeHtmlChar(Head(text)) \o escapeHtml(Tail(text))

(***************************************************************************)
(* escapeRegex, lines 368-370: a backslash before each special character.  *)
(***************************************************************************)
RegexSpecials == {".", "*", "+", "?", "^", "$", "{", "}", "(", ")", "|", "[", "]", "\\"}

RECURSIVE escapeRegex(_)
escapeRegex(text) ==
    IF text = <<>> THEN <<>>
    ELSE (IF Head(text) \in RegexSpecials THEN <<"\\", Head(text)>> ELSE <<Head(text)>>)
             \o escapeRegex(Tail(text))

(***************************************************************************)
(* new RegExp('(' + pattern + ')', 'gi'), line 356, for the patterns that  *)
(* escapeRegex produces: a sequence of atoms, each a literal character     *)
(* (escaped or ordinary) or the wildcard of an unescaped dot.              *)
(***************************************************************************)
RECURSIVE RegExpAtoms(_)
RegExpAtoms(pattern) ==
    IF pattern = <<>> THEN <<>>
    ELSE IF Head(pattern) = "\\" /\ Len(pattern) >= 2
         THEN <<[kind |-> "lit", ch |-> pattern[2]]>>
                  \o RegExpAtoms(SubSeq(pattern, 3, Len(pattern)))
    ELSE IF Head(pattern) = "."
         THEN <<[kind |-> "any", ch |-> "."]>> \o RegExpAtoms(Tail(pattern))
    ELSE <<[kind |-> "lit", ch |-> Head(pattern)]>> \o RegExpAtoms(Tail(pattern))

\* the i flag: characters are compared after case folding
AtomMatches(atom, c) ==
    atom.kind = "any" \/ toLowerChar(atom.ch) = toLowerChar(c)

MatchAt(text, atoms, i) ==
    /\ i + Len(atoms) - 1 <= Len(text)
    /\ \A k \in 1..Len(atoms) : AtomMatches(atoms[k], text[i + k - 1])

SpanOpen == "<span class=\"search-result-highlight\">"
SpanClose == "</span>"

\* String.prototype.replace with the g flag and the replacement
\* '<span class="search-result-highlight">$1</span>': the matches are taken
\* from the left and do not overlap
RECURSIVE replaceAll(_, _, _)
replaceAll(text, atoms, i) ==
    IF i > Len(text) THEN <<>>
    ELSE IF atoms # <<>> /\ MatchAt(text, atoms, i)
         THEN <<SpanOpen>> \o SubSeq(text, i, i + Len(atoms) - 1) \o <<SpanClose>>
                  \o replaceAll(text, atoms, i + Len(atoms))
    ELSE <<text[i]>> \o replaceAll(text, atoms, i + 1)

\* highlightMatch, lines 355-358
highlightMatch(text, query) ==
    replaceAll(escapeHtml(text), RegExpAtoms(escapeRegex(query)), 1)

(***************************************************************************)
(* How the HTML parser reads back a double-quoted attribute value written  *)
(* as  name="value" : the value ends at the first double quote, and the    *)
(* character references in it are decoded.                                 *)
(***************************************************************************)
RECURSIVE upToQuote(_)
upToQuote(s) ==
    IF s = <<>> \/ Head(s) = "\"" THEN <<>>
    ELSE <<Head(s)>> \o upToQuote(Tail(s))

RECURSIVE decodeEntities(_)
decodeEntities(s) ==
    IF s = <<>> THEN <<>>
    ELSE IF startsWith(s, <<"&", "a", "m", "p", ";">>)
         THEN <<"&">> \o decodeEntities(SubSeq(s, 6, Len(s)))
    ELSE IF startsWith(s, <<"&", "l", "t", ";">>)
         THEN <<"<">> \o decodeEntities(SubSeq(s, 5, Len(s)))
    ELSE IF startsWith(s, <<"&", "g", "t", ";">>)
         THEN <<">">> \o decodeEntities(SubSeq(s, 5, Len(s)))
    ELSE <<Head(s)>> \o decodeEntities(Tail(s))

\* element.getAttribute for an attribute whose value was interpolated between
\* double quotes
getAttribute(written) == decodeEntities(upToQuote(written))

VARIABLES
    \* --- the cluster icon
    clusterSchools,  \* the school records behind the child markers of a cluster
    cluster,         \* cluster.getAllChildMarkers(): a sequence of markers
    icon,            \* what iconCreateFunction returned for it, or NoIcon
    \* --- highlightMatch
    hlText,          \* the school name handed to highlightMatch
    hlQuery,         \* the query handed to highlightMatch
    hlResult,        \* what it returned, or NoResult
    \* --- createPopupContent
    popupSchool,     \* the school record handed to createPopupContent
    popupContent,    \* what it returned, or NoContent
    \* --- the legend
    legendDisplay,   \* style.display of the panel 'legendExpanded'
    legendButton,    \* style.backgroundColor of the button 'legendCollapsed'
    legendListener,  \* whether _legendOutsideHandler is a click listener of
                     \* the document
    legendTimers,    \* the number of pending setTimeout(0) registrations
    \* --- start-up
    uiPhase,         \* the fetch of the UI fragment: fetching, reading, injected, failed
    uiContainer,     \* innerHTML of the element 'ui-components'
    dataPhase,       \* the fetch of the data set: fetching, parsing, loaded, or
                     \* how it failed: rejected, badStatus, badJson, threw
    dataResponse,    \* what the fetch of the data set settled to: a rejection or
                     \* a response, its status, whether its body is JSON
    dataBody,        \* the body of the response while response.json() is pending
    alerts,          \* the number of alert() calls
    yearTag,         \* window.SCHOOL_DATA_YEAR
    schoolsData,     \* the global schoolsData
    schoolMarkers,   \* the global schoolMarkers: key -> [marker, school]
    layers,          \* markerCluster.getLayers()
    clusterOnMap,    \* markerCluster.addTo(map) was called
    mapView,         \* the centre and zoom of the map
    \* --- search
    searchElems,     \* the three search elements exist in the document
    searchListeners, \* how many times initializeSearch registered its listeners
    initRetry,       \* a retry of initializeSearch is pending (setTimeout 100)
    inputValue,      \* searchInput.value
    clearVisible,    \* clearButton has the class 'visible'
    resultsVisible,  \* searchResults has the class 'visible'
    results,         \* the parsed content of searchResults
    lastInput,       \* the last input event handled: its query, whether it
                     \* searched, matchingSchools after the sort, what the
                     \* container held before, and whether the container still
                     \* holds what the event put there
    \* --- navigation
    timers,          \* the pending settling timers of zoomToSchool, oldest first:
                     \* the marker each will open, and whether it belongs to
                     \* the navigation that lastNav describes
    reveals,         \* the pending zoomToShowLayer callbacks, oldest first, as
                     \* the timers
    popup,           \* the marker whose popup is open, 0 when none
    lastNav          \* what the last zoomToSchool call did, how many times
                     \* openPopup was called for it since, and whether a
                     \* timer of an earlier call was pending when it ran

clusterVars == <<clusterSchools, cluster, icon>>
hlVars == <<hlText, hlQuery, hlResult>>
popupVars == <<popupSchool, popupContent>>
legendVars == <<legendDisplay, legendButton, legendListener, legendTimers>>
loadVars == <<uiPhase, uiContainer, dataPhase, dataResponse, dataBody, alerts, yearTag,
              schoolsData, schoolMarkers, layers, clusterOnMap>>
loadVarsButSchools == <<uiPhase, uiContainer, dataPhase, dataResponse, dataBody, alerts,
                        yearTag, schoolMarkers, layers, clusterOnMap>>
searchVars == <<searchElems, searchListeners, initRetry, inputValue, clearVisible,
                resultsVisible, results, lastInput>>
navVars == <<mapView, timers, reveals, popup, lastNav>>
vars == <<clusterVars, hlVars, popupVars, legendVars, loadVars, searchVars, navVars>>

NoIcon == [made |-> FALSE]

(***************************************************************************)
(* createSchoolMarker: the marker keeps a back-reference to its record and *)
(* the record's precomputed colour as options.fillColor.                   *)
(***************************************************************************)
createSchoolMarkerNoFill(school) ==
    [schoolData |-> school, fillColor |-> Undefined]

createSchoolMarker(school) ==
    [schoolData |-> school, fillColor |-> school.color]

(***************************************************************************)
(* iconCreateFunction, lines 464-476: the average read back from a colour; *)
(* -1 marks a marker to skip.                                              *)
(***************************************************************************)
MarkerAvgGrayAsZero(color) ==
    IF color = Red THEN 42
    ELSE IF color = Orange THEN 47
    ELSE IF color = LightGreen THEN 52
    ELSE IF color = DarkGreen THEN 57
    ELSE IF color = Gray THEN 0
    ELSE 50

MarkerAvg(color) ==
    IF color = Red THEN 42
    ELSE IF color = Orange THEN 47
    ELSE IF color = LightGreen THEN 52
    ELSE IF color = DarkGreen THEN 57
    ELSE IF color = Gray THEN -1
    ELSE 50

\* lines 464-484: the forEach over the child markers, as a left fold; acc is
\* the pair of locals [sum, count].  The fold over a long group is the fold
\* over its second half started from the fold over its first half; the test
\* of first.count, which always holds, has the first fold evaluated before
\* the second one starts.
RECURSIVE SumCount(_, _)
SumCount(markers, acc) ==
    IF markers = <<>> THEN acc
    ELSE IF Len(markers) = 1
    THEN LET marker == Head(markers)
             avg == MarkerAvg(marker.fillColor)
         IN  IF marker.fillColor # Undefined /\ avg # -1
             THEN [sum |-> acc.sum + avg, count |-> acc.count + 1]
             ELSE acc
    ELSE LET half == Len(markers) \div 2
             first == SumCount(SubSeq(markers, 1, half), acc)
         IN  IF first.count >= 0
             THEN SumCount(SubSeq(markers, half + 1, Len(markers)), first)
             ELSE first

(***************************************************************************)
(* lines 486-501: the colour of the mean sum / count.  The mean is kept as *)
(* the fraction sum / count and compared by cross-multiplication, which is *)
(* exact; the double division of the code rounds no mean across a          *)
(* threshold for the counts a map can hold.                                *)
(***************************************************************************)
ClassifyMeanBoundaryLow(sum, count) ==
    IF count > 0
    THEN IF sum <= 45 * count THEN Red
         ELSE IF sum > 45 * count /\ sum < 50 * count THEN Orange
         ELSE IF sum >= 50 * count /\ sum < 55 * count THEN LightGreen
         ELSE IF sum >= 55 * count THEN DarkGreen
         ELSE Gray
    ELSE Gray

ClassifyMean(sum, count) ==
    IF count > 0
    THEN IF sum < 45 * count THEN Red
         ELSE IF sum >= 45 * count /\ sum < 50 * count THEN Orange
         ELSE IF sum >= 50 * count /\ sum < 55 * count THEN LightGreen
         ELSE IF sum >= 55 * count THEN DarkGreen
         ELSE Gray
    ELSE Gray

\* lines 503-504
SizeClass(childCount) ==
    IF childCount < 10 THEN "small"
    ELSE IF childCount < 100 THEN "medium" ELSE "large"

\* lines 457-511: the icon, with the locals sum and count kept for inspection
iconCreateFunctionCountsData(markers) ==
    LET sc == SumCount(markers, [sum |-> 0, count |-> 0])
    IN  [made |-> TRUE,
         sum |-> sc.sum,
         count |-> sc.count,
         color |-> ClassifyMean(sc.sum, sc.count),
         childCount |-> sc.count,
         size |-> SizeClass(sc.count)]

iconCreateFunction(markers) ==
    LET sc == SumCount(markers, [sum |-> 0, count |-> 0])
    IN  [made |-> TRUE,
         sum |-> sc.sum,
         count |-> sc.count,
         color |-> ClassifyMean(sc.sum, sc.count),
         childCount |-> Len(markers),
         size |-> SizeClass(Len(markers))]

(***************************************************************************)
(* The search: lines 287-303 of performSearch.                             *)
(***************************************************************************)
\* the characters in the order of the collation: punctuation, digits, letters
CollationChars ==
    <<" ", "\"", "&", ".", ";", "<", ">", "|", "\\",
      "0", "1", "2", "3", "4", "5", "6", "7", "8", "9">> \o LowerLetters

RankOf ==
    [c \in Chars |->
        CHOOSE i \in DOMAIN CollationChars : CollationChars[i] = LowerOf[c]]

CollationRank(c) == RankOf[c]

SignOf(x, y) == IF x < y THEN -1 ELSE IF x > y THEN 1 ELSE 0

RECURSIVE comparePrimary(_, _)
comparePrimary(a, b) ==
    IF a = <<>> /\ b = <<>> THEN 0
    ELSE IF a = <<>> THEN -1
    ELSE IF b = <<>> THEN 1
    ELSE IF CollationRank(Head(a)) # CollationRank(Head(b))
         THEN SignOf(CollationRank(Head(a)), CollationRank(Head(b)))
    ELSE comparePrimary(Tail(a), Tail(b))

CaseRank(c) == IF LowerOf[c] # c THEN 1 ELSE 0

\* called on names of equal primary keys, so of equal lengths
RECURSIVE compareCase(_, _)
compareCase(a, b) ==
    IF a = <<>> \/ b = <<>> THEN 0
    ELSE IF CaseRank(Head(a)) # CaseRank(Head(b))
         THEN SignOf(CaseRank(Head(a)), CaseRank(Head(b)))
    ELSE compareCase(Tail(a), Tail(b))

\* String.prototype.localeCompare, line 302: the letters decide first,
\* whatever their case, and between names that differ in case only the
\* lower-case letter comes first
localeCompare(a, b) ==
    LET primary == comparePrimary(a, b)
    IN  IF primary # 0 THEN primary ELSE compareCase(a, b)

\* lines 296-303: the comparator handed to sort
compareSchoolsByNameOnly(a, b, queryLower) == localeCompare(a.name, b.name)

compareSchools(a, b, queryLower) ==
    LET aStartsWith == startsWith(toLowerCase(a.name), queryLower)
        bStartsWith == startsWith(toLowerCase(b.name), queryLower)
    IN  IF aStartsWith /\ ~bStartsWith THEN -1
        ELSE IF ~aStartsWith /\ bStartsWith THEN 1
        ELSE localeCompare(a.name, b.name)

\* Array.prototype.sort is stable: an insertion sort of indices into schools
RECURSIVE insertSorted(_, _, _, _)
insertSorted(sorted, x, schools, queryLower) ==
    IF sorted = <<>> THEN <<x>>
    ELSE IF compareSchools(schools[x], schools[Head(sorted)], queryLower) < 0
         THEN <<x>> \o sorted
    ELSE <<Head(sorted)>> \o insertSorted(Tail(sorted), x, schools, queryLower)

RECURSIVE sortMatches(_, _, _)
sortMatches(idxs, schools, queryLower) ==
    IF idxs = <<>> THEN <<>>
    ELSE insertSorted(sortMatches(SubSeq(idxs, 1, Len(idxs) - 1), schools, queryLower),
                      idxs[Len(idxs)], schools, queryLower)

\* lines 288-293: the indices of the schools whose name contains the query
schoolMatchesAlsoKommune(school, query) ==
    \/ includes(toLowerCase(school.name), toLowerCase(query))
    \/ includes(toLowerCase(school.kommune), toLowerCase(query))

schoolMatches(school, query) ==
    includes(toLowerCase(school.name), toLowerCase(query))

RECURSIVE filterMatches(_, _, _)
filterMatches(schools, query, i) ==
    IF i > Len(schools) THEN <<>>
    ELSE (IF schoolMatches(schools[i], query) THEN <<i>> ELSE <<>>)
             \o filterMatches(schools, query, i + 1)

\* lines 288-303: matchingSchools after the sort, as indices into schools
matchingSchools(schools, query) ==
    sortMatches(filterMatches(schools, query, 1), schools, toLowerCase(query))

(***************************************************************************)
(* The rendering: lines 305-351 of performSearch.  The content of the      *)
(* results container is kept as the parser builds it: the rows with their  *)
(* two data attributes, the indicator, the placeholder.                    *)
(***************************************************************************)
maxResults == 10

EmptyResults == [placeholder |-> FALSE, rows |-> <<>>, more |-> <<>>]

\* lines 312-317: one row; school is the index of the record it was rendered
\* for
renderRow(schools, i, query) ==
    [school |-> i,
     nameAttr |-> getAttribute(escapeHtml(schools[i].name)),
     kommuneAttr |-> getAttribute(escapeHtml(schools[i].kommune)),
     nameHtml |-> highlightMatch(schools[i].name, query),
     kommuneHtml |-> escapeHtml(schools[i].kommune)]

\* lines 306-351
renderResultsNoCap(schools, matching, query) ==
    IF Len(matching) > 0
    THEN [placeholder |-> FALSE,
          rows |-> [k \in 1..Len(matching) |-> renderRow(schools, matching[k], query)],
          more |-> <<>>]
    ELSE [placeholder |-> TRUE, rows |-> <<>>, more |-> <<>>]

renderResults(schools, matching, query) ==
    IF Len(matching) > 0
    THEN LET resultsToShow ==
                 SubSeq(matching, 1, IF Len(matching) < maxResults
                                     THEN Len(matching) ELSE maxResults)
         IN  [placeholder |-> FALSE,
              rows |-> [k \in 1..Len(resultsToShow) |->
                            renderRow(schools, resultsToShow[k], query)],
              more |-> IF Len(matching) > maxResults
                       THEN <<[shown |-> maxResults, total |-> Len(matching)]>>
                       ELSE <<>>]
    ELSE [placeholder |-> TRUE, rows |-> <<>>, more |-> <<>>]

(***************************************************************************)
(* Start-up: the DOMContentLoaded handler (lines 44-55) has started both   *)
(* fetches and created the map (initMap, lines 416-454).                   *)
(***************************************************************************)
InitialView == [center |-> <<61, 10>>, zoom |-> 5]

EmptyMap == [k \in {} |-> 0]

NoInput == [handled |-> FALSE, query |-> <<>>, searched |-> FALSE, matching |-> <<>>,
            replaced |-> "empty", current |-> FALSE]
NoNav == [kind |-> "none", name |-> <<>>, kommune |-> <<>>, target |-> 0, opens |-> 0,
          overtakes |-> FALSE]

\* loadUIComponents, lines 58-60: the fetch settles; response.text() is
\* called whatever the status of the response
UiResponseAfterData(outcome) ==
    /\ dataPhase \notin {"fetching", "parsing"}
    /\ uiPhase = "fetching"
    /\ uiPhase' = IF outcome = "networkError" THEN "failed" ELSE outcome
    /\ UNCHANGED <<uiContainer, dataPhase, dataResponse, dataBody, alerts, yearTag, schoolsData,
                   schoolMarkers, layers, clusterOnMap>>
    /\ UNCHANGED <<clusterVars, hlVars, popupVars, legendVars, searchVars, navVars>>

UiResponse(outcome) ==
    /\ uiPhase = "fetching"
    /\ uiPhase' = IF outcome = "networkError" THEN "failed" ELSE outcome
    /\ UNCHANGED <<uiContainer, dataPhase, dataResponse, dataBody, alerts, yearTag, schoolsData,
                   schoolMarkers, layers, clusterOnMap>>
    /\ UNCHANGED <<clusterVars, hlVars, popupVars, legendVars, searchVars, navVars>>

\* lines 61-66: the body is injected, or the failure to read it is logged
UiText(readable) ==
    /\ uiPhase \in {"readingOk", "readingErrorPage"}
    /\ IF readable
       THEN /\ uiPhase' = "injected"
            /\ uiContainer' = IF uiPhase = "readingOk" THEN "fragment" ELSE "errorPage"
       ELSE /\ uiPhase' = "failed"
            /\ UNCHANGED uiContainer
    /\ UNCHANGED <<dataPhase, dataResponse, dataBody, alerts, yearTag, schoolsData,
                   schoolMarkers, layers, clusterOnMap>>
    /\ UNCHANGED <<clusterVars, hlVars, popupVars, legendVars, searchVars, navVars>>

\* createPopupContent, line 188: school.average.toFixed throws for a record
\* with hasData and no average
popupThrows(school) == school.hasData /\ school.average = <<>>

\* the first record of the list for which createSchoolMarker throws, 0 if none
firstThrowing(schools) ==
    IF \E i \in DOMAIN schools : popupThrows(schools[i])
    THEN CHOOSE i \in DOMAIN schools :
             /\ popupThrows(schools[i])
             /\ \A j \in 1..(i - 1) : ~popupThrows(schools[j])
    ELSE 0

\* line 118
uniqueKey(school) == school.name \o <<"|">> \o school.kommune

\* lines 113-120: schoolMarkers.set for each school in turn; a marker is named
\* by its place in markerCluster.getLayers()
RECURSIVE setMarkers(_, _, _, _)
setMarkers(map, schools, i, base) ==
    IF i > Len(schools) THEN map
    ELSE LET key == uniqueKey(schools[i])
             entry == [marker |-> base + i, school |-> schools[i]]
         IN  setMarkers([k \in DOMAIN map \cup {key} |->
                             IF k = key THEN entry ELSE map[k]],
                        schools, i + 1, base)

NoResponse == [settled |-> FALSE, network |-> FALSE, ok |-> FALSE, json |-> FALSE]

\* what is kept of a settled fetch
settledAs(response) ==
    [settled |-> TRUE, network |-> response.network, ok |-> response.ok,
     json |-> response.body # <<>>]

\* loadSchoolData, lines 72-77 and 105-108: the fetch settles.  A rejected
\* fetch and a response that is not ok go to the catch, which alerts.
DataResponseNoStatusCheck(response) ==
    /\ dataPhase = "fetching"
    /\ dataResponse' = settledAs(response)
    /\ IF response.network
       THEN /\ dataPhase' = "parsing"
            /\ dataBody' = response.body
            /\ UNCHANGED alerts
       ELSE /\ dataPhase' = "rejected"
            /\ alerts' = alerts + 1
            /\ UNCHANGED dataBody
    /\ UNCHANGED <<uiPhase, uiContainer, yearTag, schoolsData, schoolMarkers,
                   layers, clusterOnMap>>
    /\ UNCHANGED <<clusterVars, hlVars, popupVars, legendVars, searchVars, navVars>>

DataResponse(response) ==
    /\ dataPhase = "fetching"
    /\ dataResponse' = settledAs(response)
    /\ IF response.network /\ response.ok
       THEN /\ dataPhase' = "parsing"
            /\ dataBody' = response.body
            /\ UNCHANGED alerts
       ELSE /\ dataPhase' = IF response.network THEN "badStatus" ELSE "rejected"
            /\ alerts' = alerts + 1
            /\ UNCHANGED dataBody
    /\ UNCHANGED <<uiPhase, uiContainer, yearTag, schoolsData, schoolMarkers,
                   layers, clusterOnMap>>
    /\ UNCHANGED <<clusterVars, hlVars, popupVars, legendVars, searchVars, navVars>>

\* initializeSearch, lines 231-240 and the registrations of lines 243-283
initializeSearchStaysScheduled ==
    IF searchElems
    THEN /\ searchListeners' = searchListeners + 1
         /\ initRetry' = TRUE
    ELSE /\ initRetry' = TRUE
         /\ UNCHANGED searchListeners

initializeSearchKeepsWaiting ==
    IF searchElems /\ ~initRetry
    THEN /\ searchListeners' = searchListeners + 1
         /\ initRetry' = FALSE
    ELSE /\ initRetry' = TRUE
         /\ UNCHANGED searchListeners

initializeSearch ==
    IF searchElems
    THEN /\ searchListeners' = searchListeners + 1
         /\ initRetry' = FALSE
    ELSE /\ initRetry' = TRUE
         /\ UNCHANGED searchListeners

\* lines 76-108: response.json() settles and the continuation runs, up to the
\* statement that throws if one does; the catch then alerts
DataParsedSearchFirst ==
    /\ dataPhase = "parsing"
    /\ LET body == dataBody
           data == body[1]
           k == IF body # <<>> /\ data.hasSchools
                THEN firstThrowing(data.schools) ELSE 0
           made == IF k = 0 THEN data.schools ELSE SubSeq(data.schools, 1, k - 1)
       IN  IF body = <<>> \/ ~data.hasSchools
           THEN \* the body is no JSON, or data.schools.length throws
                /\ dataPhase' = IF body = <<>> THEN "badJson" ELSE "threw"
                /\ alerts' = alerts + 1
                /\ UNCHANGED <<yearTag, schoolsData, schoolMarkers, layers,
                               clusterOnMap, mapView, searchListeners, initRetry>>
           ELSE /\ yearTag' = IF data.currentYear # <<>> THEN data.currentYear ELSE yearTag
                /\ schoolsData' = data.schools
                /\ mapView' = IF data.mapConfig # <<>> THEN data.mapConfig[1] ELSE mapView
                /\ layers' = layers \o [i \in 1..Len(made) |-> createSchoolMarker(made[i])]
                /\ schoolMarkers' = setMarkers(schoolMarkers, made, 1, Len(layers))
                /\ IF k = 0
                   THEN /\ clusterOnMap' = TRUE
                        /\ initializeSearch
                        /\ dataPhase' = "loaded"
                        /\ UNCHANGED alerts
                   ELSE /\ dataPhase' = "threw"
                        /\ alerts' = alerts + 1
                        /\ initializeSearch
                        /\ UNCHANGED clusterOnMap
    /\ dataBody' = <<>>
    /\ UNCHANGED <<uiPhase, uiContainer, dataResponse>>
    /\ UNCHANGED <<searchElems, inputValue, clearVisible, resultsVisible, results, lastInput>>
    /\ UNCHANGED <<timers, reveals, popup, lastNav>>
    /\ UNCHANGED <<clusterVars, hlVars, popupVars, legendVars>>

DataParsed ==
    /\ dataPhase = "parsing"
    /\ LET body == dataBody
           data == body[1]
           k == IF body # <<>> /\ data.hasSchools
                THEN firstThrowing(data.schools) ELSE 0
           made == IF k = 0 THEN data.schools ELSE SubSeq(data.schools, 1, k - 1)
       IN  IF body = <<>> \/ ~data.hasSchools
           THEN \* the body is no JSON, or data.schools.length throws
                /\ dataPhase' = IF body = <<>> THEN "badJson" ELSE "threw"
                /\ alerts' = alerts + 1
                /\ UNCHANGED <<yearTag, schoolsData, schoolMarkers, layers,
                               clusterOnMap, mapView, searchListeners, initRetry>>
           ELSE /\ yearTag' = IF data.currentYear # <<>> THEN data.currentYear ELSE yearTag
                /\ schoolsData' = data.schools
                /\ mapView' = IF data.mapConfig # <<>> THEN data.mapConfig[1] ELSE mapView
                /\ layers' = layers \o [i \in 1..Len(made) |-> createSchoolMarker(made[i])]
                /\ schoolMarkers' = setMarkers(schoolMarkers, made, 1, Len(layers))
                /\ IF k = 0
                   THEN /\ clusterOnMap' = TRUE
                        /\ initializeSearch
                        /\ dataPhase' = "loaded"
                        /\ UNCHANGED alerts
                   ELSE /\ dataPhase' = "threw"
                        /\ alerts' = alerts + 1
                        /\ UNCHANGED <<clusterOnMap, searchListeners, initRetry>>
    /\ dataBody' = <<>>
    /\ UNCHANGED <<uiPhase, uiContainer, dataResponse>>
    /\ UNCHANGED <<searchElems, inputValue, clearVisible, resultsVisible, results, lastInput>>
    /\ UNCHANGED <<timers, reveals, popup, lastNav>>
    /\ UNCHANGED <<clusterVars, hlVars, popupVars, legendVars>>

\* lines 236-240: the retry of initializeSearch fires
InitSearchRetry ==
    /\ initRetry
    /\ initializeSearch
    /\ UNCHANGED <<searchElems, inputValue, clearVisible, resultsVisible, results, lastInput>>
    /\ UNCHANGED <<clusterVars, hlVars, popupVars, legendVars, loadVars, navVars>>

\* the page gets its search elements
SearchElementsAppear ==
    /\ ~searchElems
    /\ searchElems' = TRUE
    /\ UNCHANGED <<searchListeners, initRetry, inputValue, clearVisible,
                   resultsVisible, results, lastInput>>
    /\ UNCHANGED <<clusterVars, hlVars, popupVars, legendVars, loadVars, navVars>>

(***************************************************************************)
(* The legend: legendOpen, legendClose and _legendOutsideHandler, lines    *)
(* 9-36.  Its elements are in the UI fragment.                             *)
(***************************************************************************)
ClosedColour == "#4285f4"
OpenColour == "#357ae8"

\* lines 24-30
legendClose ==
    /\ legendDisplay' = "none"
    /\ legendButton' = ClosedColour
    /\ legendListener' = FALSE
    /\ UNCHANGED legendTimers

\* lines 9-23
legendOpen ==
    IF legendDisplay = "block"
    THEN legendClose
    ELSE /\ legendDisplay' = "block"
         /\ legendButton' = OpenColour
         /\ legendTimers' = legendTimers + 1
         /\ UNCHANGED legendListener

\* lines 31-36: what a click does to the legend, inBox telling whether its
\* target is in 'legendBox'; the handler runs if it is registered
legendOutsideHandler(inBox) ==
    IF legendListener /\ ~inBox
    THEN legendClose
    ELSE UNCHANGED legendVars

\* a click on a control of the legend box whose onclick calls legendOpen
LegendOpenClick ==
    /\ uiContainer = "fragment"
    /\ legendDisplay # "block" => legendTimers < MaxLegendTimers
    /\ legendOpen
    /\ UNCHANGED <<clusterVars, hlVars, popupVars, loadVars, searchVars, navVars>>

\* a click on a control of the legend box whose onclick calls legendClose
LegendCloseClick ==
    /\ uiContainer = "fragment"
    /\ legendClose
    /\ UNCHANGED <<clusterVars, hlVars, popupVars, loadVars, searchVars, navVars>>

\* lines 20-22: a timer of legendOpen fires
LegendTimerFire ==
    /\ legendTimers > 0
    /\ legendTimers' = legendTimers - 1
    /\ legendListener' = TRUE
    /\ UNCHANGED <<legendDisplay, legendButton>>
    /\ UNCHANGED <<clusterVars, hlVars, popupVars, loadVars, searchVars, navVars>>

(***************************************************************************)
(* The search box.                                                         *)
(***************************************************************************)
\* what the results container holds: nothing, rows or the placeholder
kindOf(content) ==
    IF content.placeholder THEN "placeholder"
    ELSE IF content.rows # <<>> THEN "rows" ELSE "empty"

\* performSearch, lines 287-351
performSearchFiltersInPlace(query) ==
    LET matching == matchingSchools(schoolsData, query)
        kept == filterMatches(schoolsData, query, 1)
    IN  /\ schoolsData' = [k \in DOMAIN kept |-> schoolsData[kept[k]]]
        /\ results' = renderResults(schoolsData, matching, query)
        /\ resultsVisible' = TRUE
        /\ lastInput' = [handled |-> TRUE, query |-> query, searched |-> TRUE,
                         matching |-> matching, replaced |-> kindOf(results),
                         current |-> TRUE]

performSearchAppends(query) ==
    LET matching == matchingSchools(schoolsData, query)
        rendered == renderResults(schoolsData, matching, query)
    IN  /\ UNCHANGED schoolsData
        /\ results' = [placeholder |-> results.placeholder \/ rendered.placeholder,
                       rows |-> results.rows \o rendered.rows,
                       more |-> results.more \o rendered.more]
        /\ resultsVisible' = TRUE
        /\ lastInput' = [handled |-> TRUE, query |-> query, searched |-> TRUE,
                         matching |-> matching, replaced |-> kindOf(results),
                         current |-> TRUE]

\* filter (line 291) makes a new array and sort (line 296) orders that one:
\* the school list stays as it is
performSearch(query) ==
    LET matching == matchingSchools(schoolsData, query)
    IN  /\ UNCHANGED schoolsData
        /\ results' = renderResults(schoolsData, matching, query)
        /\ resultsVisible' = TRUE
        /\ lastInput' = [handled |-> TRUE, query |-> query, searched |-> TRUE,
                         matching |-> matching, replaced |-> kindOf(results),
                         current |-> TRUE]

\* lines 243-260: the input listener, for the value just typed
inputHandlerKeepsResults(value) ==
    LET query == trim(value)
    IN  /\ clearVisible' = (Len(query) > 0)
        /\ IF Len(query) >= 2
           THEN performSearch(query)
           ELSE /\ UNCHANGED <<results, schoolsData>>
                /\ resultsVisible' = FALSE
                /\ lastInput' = [handled |-> TRUE, query |-> query, searched |-> FALSE,
                                 matching |-> <<>>, replaced |-> kindOf(results),
                                 current |-> TRUE]

inputHandler(value) ==
    LET query == trim(value)
    IN  /\ clearVisible' = (Len(query) > 0)
        /\ IF Len(query) >= 2
           THEN performSearch(query)
           ELSE /\ results' = EmptyResults
                /\ resultsVisible' = FALSE
                /\ UNCHANGED schoolsData
                /\ lastInput' = [handled |-> TRUE, query |-> query, searched |-> FALSE,
                                 matching |-> <<>>, replaced |-> kindOf(results),
                                 current |-> TRUE]

\* the user changes the input to value and the input listener, if it is
\* registered, runs
TypeInput(value) ==
    /\ searchElems
    /\ value # inputValue
    /\ inputValue' = value
    /\ IF searchListeners > 0
       THEN inputHandler(value)
       ELSE UNCHANGED <<clearVisible, results, resultsVisible, lastInput, schoolsData>>
    /\ UNCHANGED <<searchElems, searchListeners, initRetry>>
    /\ UNCHANGED <<clusterVars, hlVars, popupVars, legendVars, loadVarsButSchools, navVars>>

\* lines 263-269: a click on the clear button
ClearClick ==
    /\ searchListeners > 0
    /\ inputValue' = <<>>
    /\ clearVisible' = FALSE
    /\ resultsVisible' = FALSE
    /\ results' = EmptyResults
    /\ lastInput' = [lastInput EXCEPT !.current = FALSE]
    /\ UNCHANGED <<searchElems, searchListeners, initRetry>>
    /\ legendOutsideHandler(FALSE)
    /\ UNCHANGED <<clusterVars, hlVars, popupVars, loadVars, navVars>>

\* lines 272-276: a click outside the search container
OutsideClick ==
    /\ searchListeners > 0
    /\ resultsVisible' = FALSE
    /\ UNCHANGED <<searchElems, searchListeners, initRetry, inputValue, clearVisible,
                   results, lastInput>>
    /\ legendOutsideHandler(FALSE)
    /\ UNCHANGED <<clusterVars, hlVars, popupVars, loadVars, navVars>>

\* lines 279-283: a click on the search input
InputClick ==
    /\ searchListeners > 0
    /\ resultsVisible' = IF Len(trim(inputValue)) >= 2 THEN TRUE ELSE resultsVisible
    /\ UNCHANGED <<searchElems, searchListeners, initRetry, inputValue, clearVisible,
                   results, lastInput>>
    /\ legendOutsideHandler(FALSE)
    /\ UNCHANGED <<clusterVars, hlVars, popupVars, loadVars, navVars>>

(***************************************************************************)
(* Navigation: zoomToSchool, lines 373-413.                                *)
(***************************************************************************)
\* lines 375-386: the first marker of the group with this name and kommune,
\* 0 if there is none
findMarker(markers, schoolName, schoolKommune) ==
    LET hit(i) == /\ markers[i].schoolData.name = schoolName
                  /\ markers[i].schoolData.kommune = schoolKommune
    IN  IF \E i \in DOMAIN markers : hit(i)
        THEN CHOOSE i \in DOMAIN markers : hit(i) /\ \A j \in 1..(i - 1) : ~hit(j)
        ELSE 0

\* the pending callbacks once a newer navigation has started
older(pending) == [k \in DOMAIN pending |-> [pending[k] EXCEPT !.latest = FALSE]]

\* lines 373-413, up to the setTimeout
zoomToSchoolNoAbort(schoolName, schoolKommune) ==
    LET target == findMarker(layers, schoolName, schoolKommune)
    IN  IF target = 0
        THEN /\ lastNav' = [kind |-> "notFound", name |-> schoolName,
                            kommune |-> schoolKommune, target |-> 0, opens |-> 0,
                            overtakes |-> FALSE]
             /\ mapView' = [center |-> <<0, 0>>, zoom |-> 15]
             /\ UNCHANGED <<timers, reveals>>
        ELSE /\ lastNav' = [kind |-> "zoomed", name |-> schoolName,
                            kommune |-> schoolKommune, target |-> target, opens |-> 0,
                            overtakes |-> timers # <<>>]
             /\ mapView' = [center |-> <<layers[target].schoolData.lat,
                                         layers[target].schoolData.lng>>,
                            zoom |-> 15]
             /\ timers' = Append(older(timers), [target |-> target, latest |-> TRUE])
             /\ reveals' = older(reveals)

zoomToSchool(schoolName, schoolKommune) ==
    LET target == findMarker(layers, schoolName, schoolKommune)
    IN  IF target = 0
        THEN /\ lastNav' = [kind |-> "notFound", name |-> schoolName,
                            kommune |-> schoolKommune, target |-> 0, opens |-> 0,
                            overtakes |-> FALSE]
             /\ UNCHANGED <<mapView, timers, reveals>>
        ELSE /\ lastNav' = [kind |-> "zoomed", name |-> schoolName,
                            kommune |-> schoolKommune, target |-> target, opens |-> 0,
                            overtakes |-> timers # <<>>]
             /\ mapView' = [center |-> <<layers[target].schoolData.lat,
                                         layers[target].schoolData.lng>>,
                            zoom |-> 15]
             /\ timers' = Append(older(timers), [target |-> target, latest |-> TRUE])
             /\ reveals' = older(reveals)

\* lines 331-344: a click on row i of the visible results, while fewer than
\* pending callbacks of earlier selections are outstanding
ResultClickWhile(i, pending) ==
    /\ searchListeners > 0
    /\ resultsVisible
    /\ i \in DOMAIN results.rows
    /\ findMarker(layers, results.rows[i].nameAttr, results.rows[i].kommuneAttr) # 0
           => Len(timers) + Len(reveals) < pending
    /\ zoomToSchool(results.rows[i].nameAttr, results.rows[i].kommuneAttr)
    /\ resultsVisible' = FALSE
    /\ inputValue' = <<>>
    /\ clearVisible' = FALSE
    /\ UNCHANGED <<searchElems, searchListeners, initRetry, results, lastInput>>
    /\ UNCHANGED popup
    /\ legendOutsideHandler(FALSE)
    /\ UNCHANGED <<clusterVars, hlVars, popupVars, loadVars>>

ResultClick(i) == ResultClickWhile(i, MaxTimers)

\* targetMarker.openPopup(), lines 406 and 410, called by the callback entry
openPopup(entry) ==
    /\ popup' = entry.target
    /\ lastNav' = IF entry.latest /\ lastNav.kind = "zoomed"
                  THEN [lastNav EXCEPT !.opens = @ + 1]
                  ELSE lastNav

\* lines 402-412: the oldest settling timer fires; rendered is map.hasLayer
TimerFireOpensAnyway(rendered) ==
    /\ timers # <<>>
    /\ timers' = Tail(timers)
    /\ IF rendered
       THEN /\ openPopup(Head(timers))
            /\ UNCHANGED reveals
       ELSE /\ reveals' = Append(reveals, Head(timers))
            /\ openPopup(Head(timers))
    /\ UNCHANGED mapView
    /\ UNCHANGED <<clusterVars, hlVars, popupVars, legendVars, loadVars, searchVars>>

TimerFire(rendered) ==
    /\ timers # <<>>
    /\ timers' = Tail(timers)
    /\ IF rendered
       THEN /\ openPopup(Head(timers))
            /\ UNCHANGED reveals
       ELSE /\ reveals' = Append(reveals, Head(timers))
            /\ UNCHANGED <<popup, lastNav>>
    /\ UNCHANGED mapView
    /\ UNCHANGED <<clusterVars, hlVars, popupVars, legendVars, loadVars, searchVars>>

\* lines 405-407: zoomToShowLayer has shown the marker of its k-th pending
\* call and calls back
RevealDone(k) ==
    /\ k \in DOMAIN reveals
    /\ reveals' = SubSeq(reveals, 1, k - 1) \o SubSeq(reveals, k + 1, Len(reveals))
    /\ openPopup(reveals[k])
    /\ UNCHANGED <<mapView, timers>>
    /\ UNCHANGED <<clusterVars, hlVars, popupVars, legendVars, loadVars, searchVars>>

(***************************************************************************)
(* The inputs: school records, data sets, what the user types.             *)
(***************************************************************************)
nOslo == <<"O", "s", "l", "o">>
nNyOslo == <<"N", "y", " ", "O", "s", "l", "o">>
nOsa == <<"o", "s", "a">>
nAmpOs == <<"B", "&", "o", "s">>
nOsQuoted == <<"O", "s", "\"", "b">>
kFirst == <<"K", "1">>
kSecond == <<"K", "2">>

mkSchool(name, kommune, color, lat, lng, average) ==
    [name |-> name, kommune |-> kommune, color |-> color, lat |-> lat, lng |-> lng,
     hasData |-> color # Gray, average |-> average]

\* Oslo exists in two municipalities
sOsloFirst == mkSchool(nOslo, kFirst, Red, 59, 10, <<42>>)
sOsloSecond == mkSchool(nOslo, kSecond, DarkGreen, 60, 5, <<57>>)
sNyOslo == mkSchool(nNyOslo, kFirst, Orange, 63, 10, <<47>>)
sOsa == mkSchool(nOsa, kFirst, LightGreen, 58, 8, <<52>>)
sAmpOs == mkSchool(nAmpOs, kSecond, Gray, 69, 18, <<>>)
sOsQuoted == mkSchool(nOsQuoted, kSecond, Orange, 62, 6, <<47>>)
\* a record flagged hasData that carries no average
sNoAverage == mkSchool(nOsa, kSecond, Red, 61, 9, <<>>)
\* two records whose names and municipalities differ and concatenate alike
sBarInName == mkSchool(<<"O", "s", "|", "K">>, <<"1">>, Orange, 64, 11, <<47>>)
sBarInKommune == mkSchool(<<"O", "s">>, <<"K", "|", "1">>, LightGreen, 65, 12, <<52>>)

SchoolPool == <<sOsloFirst, sOsloSecond, sNyOslo, sOsa, sAmpOs, sOsQuoted>>
SchoolPoolSet == {SchoolPool[i] : i \in DOMAIN SchoolPool}
MainPool == {sOsloFirst, sOsloSecond, sNoAverage}

Digits == <<"0", "1", "2", "3", "4", "5", "6", "7", "8", "9">>
DecimalOf(n) ==
    IF n < 10 THEN <<Digits[n + 1]>> ELSE <<Digits[(n \div 10) + 1], Digits[(n % 10) + 1]>>

(***************************************************************************)
(* The popup: createPopupContent, lines 181-228.  A score is null,         *)
(* undefined or a number; the stored average is kept in hundredths; a text *)
(* is the sequence of its characters, without the tags around it.          *)
(***************************************************************************)
null == [kind |-> "null", value |-> 0]
undefined == [kind |-> "undefined", value |-> 0]
number(n) == [kind |-> "number", value |-> n]

\* line 182
formatScore(score) ==
    IF score = null \/ score = undefined THEN <<"*">> ELSE DecimalOf(score.value)

\* Number.prototype.toFixed(1) of num / den: the nearest number of tenths,
\* the larger one of two that are as near
toFixed(num, den) ==
    LET tenths == (20 * num + den) \div (2 * den)
    IN  DecimalOf(tenths \div 10) \o <<".", Digits[(tenths % 10) + 1]>>

SnittLabel == <<"S", "n", "i", "t", "t", ":", " ">>
FagLabel == <<" ", "f", "a", "g">>
IngenData ==
    <<"I", "n", "g", "e", "n", " ", "d", "a", "t", "a", " ",
      "t", "i", "l", "g", "j", "e", "n", "g", "e", "l", "i", "g">>

\* lines 184-190: the three scores and the line under them
currentScores(school) ==
    IF school.hasData
    THEN [engelsk |-> formatScore(school.engelsk),
          lesing |-> formatScore(school.lesing),
          regning |-> formatScore(school.regning),
          summary |-> SnittLabel \o toFixed(school.average, 100) \o <<" ", "(">>
                          \o DecimalOf(school.validScoresCount) \o FagLabel \o <<")">>]
    ELSE [engelsk |-> <<"*">>, lesing |-> <<"*">>, regning |-> <<"*">>,
          summary |-> IngenData]

\* Array.prototype.reverse on a copy
reverse(list) == [k \in DOMAIN list |-> list[Len(list) + 1 - k]]

\* lines 197-198: the present scores of a history entry, and their sum
presentScores(h) ==
    SelectSeq(<<h.engelsk, h.lesing, h.regning>>,
              LAMBDA score : score # null /\ score # undefined)

RECURSIVE sumScores(_)
sumScores(scores) ==
    IF scores = <<>> THEN 0 ELSE Head(scores).value + sumScores(Tail(scores))

\* lines 197-205: one row of the history table
historyRowOverThreeSubjects(h) ==
    LET scores == presentScores(h)
    IN  [year |-> h.year,
         engelsk |-> formatScore(h.engelsk),
         lesing |-> formatScore(h.lesing),
         regning |-> formatScore(h.regning),
         avg |-> IF Len(scores) > 0
                 THEN toFixed(sumScores(scores), 3)
                 ELSE <<"*">>]

historyRow(h) ==
    LET scores == presentScores(h)
    IN  [year |-> h.year,
         engelsk |-> formatScore(h.engelsk),
         lesing |-> formatScore(h.lesing),
         regning |-> formatScore(h.regning),
         avg |-> IF Len(scores) > 0
                 THEN toFixed(sumScores(scores), Len(scores))
                 ELSE <<"*">>]

\* lines 181-228; year is window.SCHOOL_DATA_YEAR
createPopupContent(school, year) ==
    [name |-> school.name,
     year |-> year,
     kommune |-> school.kommune,
     current |-> currentScores(school),
     history |-> LET rows == reverse(school.history)
                 IN  [k \in DOMAIN rows |-> historyRow(rows[k])]]

NoContent == [made |-> FALSE]

\* a list of n schools that cycles through the pool from place r on, each
\* school in a municipality of its own
LongList(n, r) ==
    [i \in 1..n |->
        [SchoolPool[((i + r) % Len(SchoolPool)) + 1] EXCEPT
            !.kommune = <<"K">> \o DecimalOf(i)]]

LongLists ==
    {LongList(n, 0) : n \in maxResults..(maxResults + ExtraLong)}

\* the short lists of the search box: every school of a list is listed once
ListedLists ==
    {ss \in SeqsUpTo(SchoolPoolSet, MaxListed) :
        \A i, j \in DOMAIN ss : ss[i] = ss[j] => i = j}

ConfiguredView == [center |-> <<65, 13>>, zoom |-> 4]

\* a data set carries a school list or none, and either both a map
\* configuration and a current year or neither
DataSets ==
    {[hasSchools |-> TRUE, schools |-> ss, mapConfig |-> extra.mapConfig,
      currentYear |-> extra.currentYear] :
        ss \in SeqsUpTo(MainPool, MaxSchools),
        extra \in {[mapConfig |-> <<>>, currentYear |-> <<>>],
                   [mapConfig |-> <<ConfiguredView>>, currentYear |-> <<2024>>]}}
    \cup {[hasSchools |-> FALSE, schools |-> <<>>, mapConfig |-> <<>>,
           currentYear |-> <<>>]}

\* what the fetch of the data set can settle to: a rejection, a response
\* with a non-success status (its body an error page or a data set), a body
\* that is no JSON, a data set
DataResponses ==
    {[network |-> FALSE, ok |-> FALSE, body |-> <<>>],
     [network |-> TRUE, ok |-> FALSE, body |-> <<>>],
     [network |-> TRUE, ok |-> FALSE,
      body |-> <<[hasSchools |-> TRUE, schools |-> <<sOsloFirst>>,
                  mapConfig |-> <<ConfiguredView>>, currentYear |-> <<2024>>]>>],
     [network |-> TRUE, ok |-> TRUE, body |-> <<>>],
     [network |-> TRUE, ok |-> TRUE,
      body |-> <<[hasSchools |-> TRUE, schools |-> <<sBarInName, sBarInKommune>>,
                  mapConfig |-> <<>>, currentYear |-> <<>>]>>]}
    \cup {[network |-> TRUE, ok |-> TRUE, body |-> <<d>>] : d \in DataSets}

\* what the user leaves in the search input: nothing, one letter after a
\* blank, a query in capitals between blanks, the name of a municipality
InputValues ==
    {<<>>, <<" ", "o">>, <<" ", "O", "s", " ">>, <<"k", "1">>}

HlAlphabet == {"a", "A", "m", "&", "."}

\* the records handed to createPopupContent: what the data set says of one
\* school, whatever it says
mkPopupSchool(hasData, engelsk, lesing, regning, average, validScoresCount, history) ==
    [name |-> nOslo, kommune |-> kFirst, hasData |-> hasData,
     engelsk |-> engelsk, lesing |-> lesing, regning |-> regning,
     average |-> average, validScoresCount |-> validScoresCount,
     history |-> history]

NoSchool == mkPopupSchool(FALSE, null, null, null, 0, 0, <<>>)

Scores == {null, undefined, number(53)}

\* 53, 50.33 and 52.67, in hundredths
Averages == {5300, 5033, 5267}

HistoryPool ==
    {[year |-> 2021, engelsk |-> number(49), lesing |-> number(50),
      regning |-> number(52)],
     [year |-> 2022, engelsk |-> number(50), lesing |-> null,
      regning |-> number(51)],
     [year |-> 2023, engelsk |-> null, lesing |-> undefined, regning |-> null]}

\* the histories: every entry is for a year of its own
Histories ==
    {hs \in SeqsUpTo(HistoryPool, MaxHistory) :
        \A i, j \in DOMAIN hs : hs[i].year = hs[j].year => i = j}

PopupSchools ==
    {mkPopupSchool(TRUE, e, l, r, average, n, hs) :
        e \in Scores, l \in Scores, r \in Scores, average \in Averages,
        n \in 1..3, hs \in Histories}
    \cup {mkPopupSchool(FALSE, null, null, null, 0, 0, hs) : hs \in Histories}

NoResult == [done |-> FALSE, html |-> <<>>]

(***************************************************************************)
(* Specifications.                                                         *)
(***************************************************************************)
ClusterIdle == clusterSchools = <<>> /\ cluster = <<>> /\ icon = NoIcon

HlIdle == hlText = <<>> /\ hlQuery = <<>> /\ hlResult = NoResult

PopupIdle == popupSchool = NoSchool /\ popupContent = NoContent

LegendIdle ==
    /\ legendDisplay = "none"
    /\ legendButton = ClosedColour
    /\ legendListener = FALSE
    /\ legendTimers = 0

SearchBoxIdle ==
    /\ inputValue = <<>>
    /\ clearVisible = FALSE
    /\ resultsVisible = FALSE
    /\ results = EmptyResults
    /\ lastInput = NoInput

NavIdle == timers = <<>> /\ reveals = <<>> /\ popup = 0 /\ lastNav = NoNav

\* the page before any fetch: what the pure specifications leave untouched
AppIdle ==
    /\ uiPhase = "off" /\ uiContainer = ""
    /\ dataPhase = "off" /\ dataResponse = NoResponse /\ dataBody = <<>>
    /\ alerts = 0 /\ yearTag = <<>> /\ schoolsData = <<>> /\ schoolMarkers = EmptyMap
    /\ layers = <<>> /\ clusterOnMap = FALSE /\ mapView = InitialView
    /\ searchElems = FALSE /\ searchListeners = 0 /\ initRetry = FALSE
    /\ SearchBoxIdle
    /\ NavIdle

\* the page when the DOMContentLoaded handler has returned
Init ==
    /\ ClusterIdle
    /\ HlIdle
    /\ PopupIdle
    /\ LegendIdle
    /\ uiPhase = "fetching" /\ uiContainer = ""
    /\ dataPhase = "fetching" /\ dataResponse = NoResponse /\ dataBody = <<>>
    /\ alerts = 0 /\ yearTag = <<>> /\ schoolsData = <<>> /\ schoolMarkers = EmptyMap
    /\ layers = <<>> /\ clusterOnMap = FALSE /\ mapView = InitialView
    /\ searchElems \in BOOLEAN /\ searchListeners = 0 /\ initRetry = FALSE
    /\ SearchBoxIdle
    /\ NavIdle

SearchBoxNext ==
    \/ \E value \in InputValues : TypeInput(value)
    \/ ClearClick
    \/ OutsideClick
    \/ InputClick
    \/ \E i \in 1..maxResults : ResultClick(i)

NavNext ==
    \/ \E rendered \in BOOLEAN : TimerFire(rendered)
    \/ \E k \in 1..MaxTimers : RevealDone(k)

Next ==
    \/ \E outcome \in {"networkError", "readingOk", "readingErrorPage"} :
           UiResponse(outcome)
    \/ \E readable \in BOOLEAN : UiText(readable)
    \/ \E response \in DataResponses : DataResponse(response)
    \/ DataParsed
    \/ InitSearchRetry
    \/ SearchElementsAppear
    \/ SearchBoxNext
    \/ NavNext

Spec == Init /\ [][Next]_vars

\* the page after a successful load of the school list schools
Loaded(schools) ==
    /\ uiPhase = "injected" /\ uiContainer = "fragment"
    /\ dataPhase = "loaded"
    /\ dataResponse = [settled |-> TRUE, network |-> TRUE, ok |-> TRUE, json |-> TRUE]
    /\ dataBody = <<>>
    /\ alerts = 0 /\ yearTag = <<>> /\ schoolsData = schools
    /\ layers = [i \in DOMAIN schools |-> createSchoolMarker(schools[i])]
    /\ schoolMarkers = setMarkers(EmptyMap, schools, 1, 0)
    /\ clusterOnMap = TRUE /\ mapView = InitialView
    /\ searchElems = TRUE /\ searchListeners = 1 /\ initRetry = FALSE
    /\ SearchBoxIdle
    /\ NavIdle

\* the search box after a successful load, over every short school list in
\* every order and over the long lists.  The timers that a selection leaves
\* pending fire under Spec; they read and write nothing of the search box.
SearchInit ==
    /\ ClusterIdle
    /\ HlIdle
    /\ PopupIdle
    /\ LegendIdle
    /\ \E schools \in ListedLists \cup LongLists : Loaded(schools)

SearchNext == SearchBoxNext

SpecSearch == SearchInit /\ [][SearchNext]_vars

\* the sizes around which the size class of a cluster icon changes
ThresholdSizes == {9, 10, 11, 99, 100, 101}

\* a group of n red schools of which the first gray are gray instead
LargeCluster(n, gray) == [i \in 1..n |-> IF i <= gray THEN Gray ELSE Red]

LargeClusters ==
    {LargeCluster(n, gray) : n \in ThresholdSizes, gray \in {0, 1, 9, 99}}
    \cup {LargeCluster(n, n) : n \in ThresholdSizes}

\* iconCreateFunction over every group of markers the library can hand to it
ClusterInit ==
    /\ clusterSchools \in {[i \in DOMAIN cs |-> [color |-> cs[i]]] :
                               cs \in (SeqsUpTo(Colors, MaxCluster) \ {<<>>})
                                          \cup LargeClusters}
    /\ cluster = [i \in DOMAIN clusterSchools |->
                      createSchoolMarker(clusterSchools[i])]
    /\ icon = NoIcon
    /\ HlIdle
    /\ PopupIdle
    /\ LegendIdle
    /\ AppIdle

CreateClusterIcon ==
    /\ icon = NoIcon
    /\ icon' = iconCreateFunction(cluster)
    /\ UNCHANGED <<clusterSchools, cluster>>
    /\ UNCHANGED <<hlVars, popupVars, legendVars, loadVars, searchVars, navVars>>

ClusterNext == CreateClusterIcon

SpecCluster == ClusterInit /\ [][ClusterNext]_vars

\* highlightMatch over every name and every query that the name contains
HighlightInit ==
    /\ hlText \in SeqsUpTo(HlAlphabet, MaxTextLen)
    /\ hlQuery \in {q \in SeqsUpTo(HlAlphabet, MaxQueryLen) : Len(q) >= 2}
    /\ includes(toLowerCase(hlText), toLowerCase(hlQuery))
    /\ hlResult = NoResult
    /\ ClusterIdle
    /\ PopupIdle
    /\ LegendIdle
    /\ AppIdle

HighlightName ==
    /\ ~hlResult.done
    /\ hlResult' = [done |-> TRUE, html |-> highlightMatch(hlText, hlQuery)]
    /\ UNCHANGED <<hlText, hlQuery>>
    /\ UNCHANGED <<clusterVars, popupVars, legendVars, loadVars, searchVars, navVars>>

HighlightNext == HighlightName

SpecHighlight == HighlightInit /\ [][HighlightNext]_vars

\* createPopupContent over every record of PopupSchools
PopupInit ==
    /\ popupSchool \in PopupSchools
    /\ popupContent = NoContent
    /\ ClusterIdle
    /\ HlIdle
    /\ LegendIdle
    /\ AppIdle

CreatePopup ==
    /\ ~popupContent.made
    /\ popupContent' = [made |-> TRUE, html |-> createPopupContent(popupSchool, yearTag)]
    /\ UNCHANGED popupSchool
    /\ UNCHANGED <<clusterVars, hlVars, legendVars, loadVars, searchVars, navVars>>

PopupNext == CreatePopup

SpecPopup == PopupInit /\ [][PopupNext]_vars

\* the legend and the search box of a loaded page: every click outside the
\* legend box reaches the document listener of the legend
LegendInit ==
    /\ ClusterIdle
    /\ HlIdle
    /\ PopupIdle
    /\ LegendIdle
    /\ Loaded(<<sOsloFirst, sOsloSecond>>)

LegendNext ==
    \/ LegendOpenClick
    \/ LegendCloseClick
    \/ LegendTimerFire
    \/ SearchBoxNext

SpecLegend == LegendInit /\ [][LegendNext]_vars

\* selections that follow each other on a loaded page before the callbacks
\* of the earlier ones have run
SelectInit ==
    /\ ClusterIdle
    /\ HlIdle
    /\ PopupIdle
    /\ LegendIdle
    /\ Loaded(<<sOsloFirst, sOsloSecond>>)

SelectNext ==
    \/ \E value \in InputValues : TypeInput(value)
    \/ ClearClick
    \/ OutsideClick
    \/ InputClick
    \/ \E i \in 1..maxResults : ResultClickWhile(i, MaxSelections)
    \/ \E rendered \in BOOLEAN : TimerFire(rendered)
    \/ \E k \in 1..MaxSelections : RevealDone(k)

SpecSelect == SelectInit /\ [][SelectNext]_vars

\* the load of the page alone; a timer that setTimeout has started fires
LoadNext ==
    \/ \E outcome \in {"networkError", "readingOk", "readingErrorPage"} :
           UiResponse(outcome)
    \/ \E readable \in BOOLEAN : UiText(readable)
    \/ \E response \in DataResponses : DataResponse(response)
    \/ DataParsed
    \/ InitSearchRetry
    \/ SearchElementsAppear

SpecLoadFair == Init /\ [][LoadNext]_vars /\ WF_vars(InitSearchRetry)

TableValue(color) ==
    CASE color = Red -> 42
      [] color = Orange -> 47
      [] color = LightGreen -> 52
      [] color = DarkGreen -> 57
      [] OTHER -> 50

RECURSIVE SumValues(_)
SumValues(colors) ==
    IF colors = <<>> THEN 0 ELSE TableValue(Head(colors)) + SumValues(Tail(colors))

IsCounted(color) == color # Gray /\ color # Undefined

FillColors == [i \in DOMAIN cluster |-> cluster[i].fillColor]

\* C2: a gray marker adds to neither sum nor count (they are the sum and the
\* number of the other coloured markers), and a cluster of gray markers only
\* gets the gray icon.
GrayMarkersExcluded ==
    icon.made =>
        /\ icon.count = Len(SelectSeq(FillColors, IsCounted))
        /\ icon.sum = SumValues(SelectSeq(FillColors, IsCounted))
        /\ (\A i \in DOMAIN cluster : cluster[i].fillColor = Gray)
               => icon.color = Gray

\* an icon was made for a cluster that mixes gray markers with others
GrayAmongCounted ==
    /\ icon.made
    /\ \E i \in DOMAIN cluster : cluster[i].fillColor = Gray
    /\ \E i \in DOMAIN cluster : cluster[i].fillColor \in {Red, DarkGreen}
    /\ icon.count < Len(cluster)

\* the classification of section 4.1 of the mean sum / count
Classify41(noData, sum, count) ==
    CASE noData -> Gray
      [] ~noData /\ sum < 45 * count -> Red
      [] ~noData /\ 45 * count <= sum /\ sum < 50 * count -> Orange
      [] ~noData /\ 50 * count <= sum /\ sum < 55 * count -> LightGreen
      [] ~noData /\ sum >= 55 * count -> DarkGreen

RecordColors == [i \in DOMAIN clusterSchools |-> clusterSchools[i].color]

IsNotGray(color) == color # Gray

\* C3: when every record behind the cluster has one of the five colours of
\* section 4.1, the icon colour is the section 4.1 classification of the mean
\* of the table values (42, 47, 52, 57) of the records that are not gray.
ClusterColourFromRecordColours ==
    (icon.made /\ \A i \in DOMAIN clusterSchools :
                      clusterSchools[i].color \in ClassifierColors) =>
        LET counted == SelectSeq(RecordColors, IsNotGray)
        IN  icon.color = Classify41(counted = <<>>, SumValues(counted), Len(counted))

\* an icon was made for an orange and a light-green record, whose mean 49.5
\* is orange
ClusterOfTwoBands ==
    /\ icon.made
    /\ \A i \in DOMAIN clusterSchools : clusterSchools[i].color \in ClassifierColors
    /\ \E i, j \in DOMAIN clusterSchools :
           /\ clusterSchools[i].color = Orange
           /\ clusterSchools[j].color = LightGreen
    /\ Len(clusterSchools) = 2
    /\ icon.color = Orange

(***************************************************************************)
(* Claims about the search box and the navigation from it.                 *)
(***************************************************************************)
\* C4: a click on the row rendered for school s navigates to a marker whose
\* record has the name and the municipality of s: the two data attributes
\* of the row read back as s.name and s.kommune, and zoomToSchool finds a
\* marker with both.
SelectionNavigatesToRowSchool ==
    [][\A i \in 1..maxResults :
          ResultClick(i) =>
              LET s == schoolsData[results.rows[i].school]
              IN  /\ results.rows[i].nameAttr = s.name
                  /\ results.rows[i].kommuneAttr = s.kommune
                  /\ lastNav'.kind = "zoomed"
                  /\ layers[lastNav'.target].schoolData.name = s.name
                  /\ layers[lastNav'.target].schoolData.kommune = s.kommune]_vars

\* C6: after an input event whose trimmed query has fewer than 2 characters
\* no search was performed and the results container is empty and hidden,
\* whatever it held before.
ShortQueryClearsResults ==
    (lastInput.handled /\ Len(lastInput.query) < 2) =>
        /\ ~lastInput.searched
        /\ lastInput.matching = <<>>
        /\ results = EmptyResults
        /\ ~resultsVisible

\* an input event with a query of one character has emptied a container that
\* held the rows of an earlier query
ShortQueryAfterRows ==
    /\ lastInput.handled
    /\ lastInput.current
    /\ Len(lastInput.query) = 1
    /\ lastInput.replaced = "rows"
    /\ results = EmptyResults

\* the same letter, whatever the case
SameLetter(c, d) ==
    \/ c = d
    \/ \E i \in DOMAIN UpperLetters :
           {c, d} = {UpperLetters[i], LowerLetters[i]}

\* q occurs in s at place i, whatever the case of the letters
OccursAt(s, q, i) ==
    /\ i >= 1
    /\ i + Len(q) - 1 <= Len(s)
    /\ \A k \in 1..Len(q) : SameLetter(s[i + k - 1], q[k])

ContainsIgnoringCase(s, q) == \E i \in 1..Len(s) : OccursAt(s, q, i)

\* C7: for a query of at least 2 characters the matched schools are exactly
\* the loaded schools whose name contains the query, whatever the case of
\* the letters; each is matched once, and the municipality is not searched.
MatchesAreNameSubstrings ==
    lastInput.searched =>
        /\ Len(lastInput.query) >= 2
        /\ {lastInput.matching[k] : k \in DOMAIN lastInput.matching}
               = {i \in DOMAIN schoolsData :
                      ContainsIgnoringCase(schoolsData[i].name, lastInput.query)}
        /\ \A k, l \in DOMAIN lastInput.matching :
               lastInput.matching[k] = lastInput.matching[l] => k = l

\* the query "Os" has matched the school "osa", whose name holds it in
\* another case only
MatchedInAnotherCase ==
    /\ lastInput.searched
    /\ lastInput.query = <<"O", "s">>
    /\ \E k \in DOMAIN lastInput.matching :
           schoolsData[lastInput.matching[k]].name = nOsa
    /\ ~includes(nOsa, lastInput.query)

StartsIgnoringCase(s, q) == Len(q) >= 1 /\ OccursAt(s, q, 1)

\* C8: in matchingSchools after the sort, a school whose name starts with
\* the query comes before every school whose name only contains it, and
\* within each of the two groups the names ascend in the order of
\* localeCompare.
StartsWithFirstThenByName ==
    lastInput.searched =>
        \A k, l \in DOMAIN lastInput.matching :
            k < l =>
                LET a == schoolsData[lastInput.matching[k]].name
                    b == schoolsData[lastInput.matching[l]].name
                    aStarts == StartsIgnoringCase(a, lastInput.query)
                    bStarts == StartsIgnoringCase(b, lastInput.query)
                IN  /\ bStarts => aStarts
                    /\ (aStarts <=> bStarts) => localeCompare(a, b) <= 0

\* a search has put a school that starts with the query before a school
\* that stands earlier in the list and precedes it by name
OrderedAgainstListAndName ==
    /\ lastInput.searched
    /\ \E k, l \in DOMAIN lastInput.matching :
           /\ k < l
           /\ lastInput.matching[k] > lastInput.matching[l]
           /\ StartsIgnoringCase(schoolsData[lastInput.matching[k]].name, lastInput.query)
           /\ ~StartsIgnoringCase(schoolsData[lastInput.matching[l]].name, lastInput.query)
           /\ localeCompare(schoolsData[lastInput.matching[l]].name,
                            schoolsData[lastInput.matching[k]].name) < 0

\* C9: a search with m matches renders the first min(m, 10) schools of
\* matchingSchools, one row each; the indicator is there iff m > 10 and
\* shows 10 and m; with no match the placeholder stands alone.
RowsCappedAtTen ==
    (lastInput.searched /\ lastInput.current) =>
        LET m == Len(lastInput.matching)
        IN  /\ Len(results.rows) = IF m < 10 THEN m ELSE 10
            /\ \A k \in DOMAIN results.rows :
                   results.rows[k].school = lastInput.matching[k]
            /\ (results.more # <<>>) <=> (m > 10)
            /\ results.more # <<>> =>
                   results.more = <<[shown |-> 10, total |-> m]>>
            /\ results.placeholder <=> (m = 0)

\* a search with more than 10 matches shows 10 rows and the indicator
MoreThanTenMatches ==
    /\ lastInput.searched
    /\ lastInput.current
    /\ Len(lastInput.matching) > 10
    /\ Len(results.rows) = 10
    /\ results.more # <<>>

(***************************************************************************)
(* Claims about the load of the data set.                                  *)
(***************************************************************************)
\* the page after a failed load of the data set: one alert, no marker, no
\* school list, nothing on the map, no search
NothingRendered ==
    /\ alerts = 1
    /\ dataPhase \in {"badStatus", "badJson"}
    /\ layers = <<>>
    /\ schoolMarkers = EmptyMap
    /\ schoolsData = <<>>
    /\ ~clusterOnMap
    /\ mapView = InitialView
    /\ searchListeners = 0
    /\ ~initRetry

\* C5: when the fetch of the data set answers with a non-success status, or
\* with a body that is no JSON, the alert is shown once and nothing is
\* rendered: no marker, no school list, the cluster group not on the map,
\* the view of the map as initMap left it, no search initialised.
FailedLoadRendersNothing ==
    /\ (dataResponse.settled /\ dataResponse.network /\ ~dataResponse.ok)
           => NothingRendered
    /\ (dataResponse.settled /\ dataResponse.network /\ dataResponse.ok
            /\ ~dataResponse.json /\ dataPhase # "parsing")
           => NothingRendered

\* a response with a success status whose body is no JSON has been alerted,
\* while the UI fragment was injected
UnparseableBodyAlerted ==
    /\ dataResponse.settled
    /\ dataResponse.ok
    /\ ~dataResponse.json
    /\ dataPhase = "badJson"
    /\ alerts = 1
    /\ uiPhase = "injected"

(***************************************************************************)
(* Claims about highlightMatch.                                            *)
(***************************************************************************)
IsCharacter(x) == x # SpanOpen /\ x # SpanClose

\* the places <<first, last>> of the text without its spans that stand
\* inside a span
RECURSIVE wrappedFrom(_, _, _, _)
wrappedFrom(html, k, pos, start) ==
    IF k > Len(html) THEN {}
    ELSE IF html[k] = SpanOpen THEN wrappedFrom(html, k + 1, pos, pos + 1)
    ELSE IF html[k] = SpanClose
         THEN {<<start, pos>>} \cup wrappedFrom(html, k + 1, pos, 0)
    ELSE wrappedFrom(html, k + 1, pos + 1, start)

\* where character i of text starts in escapeHtml(text)
EscapedPlace(text, i) == Len(escapeHtml(SubSeq(text, 1, i - 1))) + 1

\* the places in escapeHtml(text) of the occurrence of q at place i of text
OccurrenceRange(text, q, i) ==
    <<EscapedPlace(text, i), EscapedPlace(text, i + Len(q)) - 1>>

\* the occurrences of q in text taken from the left without overlap
RECURSIVE occurrencesFrom(_, _, _)
occurrencesFrom(text, q, i) ==
    IF i > Len(text) THEN {}
    ELSE IF OccursAt(text, q, i)
         THEN {i} \cup occurrencesFrom(text, q, i + Len(q))
    ELSE occurrencesFrom(text, q, i + 1)

\* C10: for a name and a query of at least 2 characters that the name
\* contains, highlightMatch gives the escaped name with exactly the
\* occurrences of the query wrapped: without the spans it is
\* escapeHtml(name), every occurrence (taken from the left, without overlap)
\* is wrapped, and every span wraps an occurrence of the query in the name.
HighlightWrapsExactlyTheOccurrences ==
    hlResult.done =>
        LET wrapped == wrappedFrom(hlResult.html, 1, 0, 0)
        IN  /\ SelectSeq(hlResult.html, IsCharacter) = escapeHtml(hlText)
            /\ \A i \in occurrencesFrom(hlText, hlQuery, 1) :
                   OccurrenceRange(hlText, hlQuery, i) \in wrapped
            /\ \A r \in wrapped :
                   \E i \in 1..Len(hlText) :
                       /\ OccursAt(hlText, hlQuery, i)
                       /\ r = OccurrenceRange(hlText, hlQuery, i)

(***************************************************************************)
(* Claims about the navigation.                                            *)
(***************************************************************************)
\* C11: when zoomToSchool is called for a name and a municipality that no
\* marker of the cluster group has, it aborts: the view of the map, the
\* pending timers, the pending reveals and the open popup are as before, and
\* the click handler that called it runs on to its end (it hides the
\* results and empties the input), so nothing was thrown.
NotFoundAborts ==
    [][\A i \in 1..maxResults :
          (ResultClick(i)
             /\ findMarker(layers, results.rows[i].nameAttr,
                           results.rows[i].kommuneAttr) = 0) =>
              /\ lastNav'.kind = "notFound"
              /\ mapView' = mapView
              /\ timers' = timers
              /\ reveals' = reveals
              /\ popup' = popup
              /\ ~resultsVisible'
              /\ inputValue' = <<>>]_vars

\* a navigation that found no marker has ended while the timer of an earlier
\* navigation was pending and the view was where that navigation put it
NotFoundWhilePending ==
    /\ lastNav.kind = "notFound"
    /\ lastNav.name = <<"O", "s">>
    /\ timers # <<>>
    /\ mapView.zoom = 15
    /\ popup = 0

\* the pending callbacks of the navigation that lastNav describes
ofLatest(entry) == entry.latest

\* C12: a successful navigation sets the view to the coordinates of its
\* marker at zoom 15 and leaves the popup alone; the popup of that marker is
\* opened later, when the settling timer fires (directly if the marker is
\* rendered, after zoomToShowLayer has called back if it is not), and once:
\* the navigation has either one callback pending and no popup opened, or
\* no callback pending and its popup opened once.
ViewFirstThenPopupOnce ==
    /\ [](lastNav.kind = "zoomed" =>
              lastNav.opens + Len(SelectSeq(timers, ofLatest))
                  + Len(SelectSeq(reveals, ofLatest)) = 1)
    /\ [][/\ \A i \in 1..maxResults :
               (ResultClick(i) /\ lastNav'.kind = "zoomed") =>
                   LET school == layers[lastNav'.target].schoolData
                   IN  /\ mapView' = [center |-> <<school.lat, school.lng>>,
                                      zoom |-> 15]
                       /\ popup' = popup
                       /\ lastNav'.opens = 0
                       /\ timers'[Len(timers')].target = lastNav'.target
          /\ TimerFire(TRUE) =>
                 (popup' = Head(timers).target /\ reveals' = reveals)
          /\ TimerFire(FALSE) =>
                 (popup' = popup /\ reveals' = Append(reveals, Head(timers)))
          /\ \A k \in 1..MaxTimers :
                 RevealDone(k) => popup' = reveals[k].target]_vars

\* the popup of the marker of the last navigation was opened once, the view
\* is at that marker, and nothing is pending
PopupOpenedAfterZoom ==
    /\ lastNav.kind = "zoomed"
    /\ lastNav.opens = 1
    /\ timers = <<>> /\ reveals = <<>>
    /\ popup = lastNav.target
    /\ mapView.zoom = 15
    /\ mapView.center = <<layers[popup].schoolData.lat, layers[popup].schoolData.lng>>

(***************************************************************************)
(* Claims about the start-up.                                              *)
(***************************************************************************)
\* what the fetch of the data set and its continuation write
dataSide == <<dataPhase, dataResponse, dataBody, alerts, yearTag, schoolsData,
              schoolMarkers, layers, clusterOnMap, mapView, searchListeners, initRetry>>

\* what the fetch of the UI fragment and its continuation write
uiSide == <<uiPhase, uiContainer>>

\* C13: the two fetches are started once and are independent: whatever
\* state the other fetch is in (pending, succeeded or failed), the next step
\* of each fetch can be taken with every outcome; a step of one fetch
\* writes nothing of the other; and no fetch is started again.
FetchesIndependent ==
    /\ [](/\ uiPhase = "fetching" =>
               \A outcome \in {"networkError", "readingOk", "readingErrorPage"} :
                   ENABLED UiResponse(outcome)
          /\ uiPhase \in {"readingOk", "readingErrorPage"} =>
               \A readable \in BOOLEAN : ENABLED UiText(readable)
          /\ dataPhase = "fetching" =>
               \A response \in DataResponses : ENABLED DataResponse(response)
          /\ dataPhase = "parsing" => ENABLED DataParsed)
    /\ [][/\ uiSide' # uiSide => dataSide' = dataSide
          /\ uiPhase' = "fetching" => uiPhase = "fetching"
          /\ dataPhase' = "fetching" => dataPhase = "fetching"]_vars

\* the fetch of the UI fragment has failed, and the data set was loaded
\* after that failure: markers made, cluster group on the map, search
\* initialised
LoadedAfterFragmentFailed ==
    /\ uiPhase = "failed"
    /\ uiContainer = ""
    /\ dataPhase = "loaded"
    /\ Len(layers) = 2
    /\ clusterOnMap
    /\ searchListeners = 1

\* C14: when the load of the UI fragment fails (the fetch is rejected, the
\* response has a non-success status, or its body cannot be read), nothing is
\* injected: the container 'ui-components' stays empty, and it never holds
\* the body of a response with a non-success status.
FailedFragmentInjectsNothing ==
    /\ uiPhase = "failed" => uiContainer = ""
    /\ uiContainer # "errorPage"

\* C15: markers, the cluster group on the map and the search come only from
\* the continuation of a data fetch that succeeded, in that order: the
\* cluster group is on the map only when schoolsData holds the list and every
\* school of it has its marker in the cluster group; initializeSearch has run
\* only when the cluster group is on the map; a search has run only with a
\* listener registered.
LoadGatesMarkersClusterSearch ==
    /\ (schoolsData # <<>> \/ layers # <<>> \/ clusterOnMap
            \/ searchListeners > 0 \/ initRetry) =>
           /\ dataResponse.settled /\ dataResponse.ok /\ dataResponse.json
           /\ dataPhase \in {"loaded", "threw"}
    /\ clusterOnMap =>
           /\ dataPhase = "loaded"
           /\ Len(layers) = Len(schoolsData)
           /\ \A i \in DOMAIN schoolsData : layers[i].schoolData = schoolsData[i]
    /\ (searchListeners > 0 \/ initRetry) => clusterOnMap
    /\ (lastInput.handled \/ results # EmptyResults) => searchListeners > 0

\* a search has run on a page whose two schools have their markers in the
\* cluster group on the map
SearchedAfterFullLoad ==
    /\ lastInput.searched
    /\ searchListeners = 1
    /\ dataPhase = "loaded"
    /\ Len(schoolsData) = 2
    /\ Len(layers) = 2
    /\ clusterOnMap

(***************************************************************************)
(* Claims about the shared data.                                           *)
(***************************************************************************)
\* C16: the school list and the key->marker mapping are written only by the
\* load continuation, which runs at most once: a step changes schoolsData or
\* schoolMarkers only by taking the continuation from its start to its end,
\* and once the load has ended, in whatever way, it never starts again.  So
\* no search, navigation or popup step changes the list, its order, a field
\* of a record or the mapping.
OnlyTheLoadWritesSchools ==
    [][/\ (schoolsData' # schoolsData \/ schoolMarkers' # schoolMarkers) =>
              /\ dataPhase = "parsing"
              /\ dataPhase' \in {"loaded", "threw"}
       /\ dataPhase \notin {"fetching", "parsing"} => dataPhase' = dataPhase
       /\ dataPhase = "parsing" => dataPhase' # "fetching"]_vars

\* after a load of two schools, a navigation has opened a popup and a later
\* search has matched no school: the list still holds the two schools
SearchedAndNavigatedAfterLoad ==
    /\ dataPhase = "loaded"
    /\ schoolsData = <<sOsloFirst, sOsloSecond>>
    /\ Cardinality(DOMAIN schoolMarkers) = 2
    /\ lastNav.kind = "zoomed"
    /\ popup # 0
    /\ lastInput.searched
    /\ lastInput.matching = <<>>

\* C17: the results container holds what the most recent input event put
\* there and nothing else: for a query of at least 2 characters, what
\* performSearch renders for that query over the school list, every row
\* being for a school whose name contains that query and highlighted with
\* that query; for a shorter query, nothing.  What the container held before
\* the event has no part in it.
LastQueryAloneDeterminesResults ==
    (lastInput.handled /\ lastInput.current) =>
        /\ results =
               IF Len(lastInput.query) >= 2
               THEN renderResults(schoolsData,
                                  matchingSchools(schoolsData, lastInput.query),
                                  lastInput.query)
               ELSE EmptyResults
        /\ \A k \in DOMAIN results.rows :
               LET school == schoolsData[results.rows[k].school]
               IN  /\ ContainsIgnoringCase(school.name, lastInput.query)
                   /\ results.rows[k].nameHtml =
                          highlightMatch(school.name, lastInput.query)
        /\ results.placeholder =>
               /\ results.rows = <<>>
               /\ results.more = <<>>
               /\ \A i \in DOMAIN schoolsData :
                      ~ContainsIgnoringCase(schoolsData[i].name, lastInput.query)

\* a search has put rows into a container that held the placeholder of an
\* earlier query
RowsReplacedPlaceholder ==
    /\ lastInput.handled
    /\ lastInput.current
    /\ lastInput.searched
    /\ lastInput.replaced = "placeholder"
    /\ results.rows # <<>>
    /\ ~results.placeholder

(***************************************************************************)
(* Claims about retries.                                                   *)
(***************************************************************************)
\* C18 as stated: no operation reschedules itself; for the initialisation
\* of the search, no call of initializeSearch leaves a later call of itself
\* scheduled.
NothingReschedulesItself == ~initRetry

\* C18, amended: the two fetches and the navigation run once per trigger and
\* never reschedule themselves: a fetch that has settled is not started
\* again, and a callback of zoomToSchool is added only by a click on a row,
\* one per click.  initializeSearch alone reschedules itself: it is
\* rescheduled by the load continuation when the search elements are
\* missing, stays scheduled while they are missing, and ends by registering
\* its listeners once; they are never registered twice.
OnlySearchInitReschedules ==
    /\ [](/\ searchListeners <= 1
          /\ initRetry => (searchListeners = 0 /\ dataPhase = "loaded"))
    /\ [][/\ uiPhase' = "fetching" => uiPhase = "fetching"
          /\ uiPhase \in {"injected", "failed"} => uiPhase' = uiPhase
          /\ dataPhase' \in {"fetching", "parsing"} =>
                 dataPhase \in {"fetching", "parsing"}
          /\ alerts' \in {alerts, alerts + 1}
          /\ alerts' # alerts => dataPhase # dataPhase'
          /\ Len(timers') + Len(reveals') > Len(timers) + Len(reveals) =>
                 /\ resultsVisible /\ ~resultsVisible'
                 /\ Len(timers') + Len(reveals') = Len(timers) + Len(reveals) + 1
          /\ (~initRetry /\ initRetry') =>
                 /\ ~searchElems
                 /\ dataPhase = "parsing" /\ dataPhase' = "loaded"
          /\ (initRetry /\ ~searchElems') => initRetry'
          /\ (initRetry /\ ~initRetry') =>
                 /\ searchElems
                 /\ searchListeners' = 1]_vars

\* the load continuation found no search elements and initializeSearch has
\* rescheduled itself; the elements have appeared since, with the UI
\* fragment, and the scheduled call has not run yet
RetryPendingWithElements ==
    /\ initRetry
    /\ searchElems
    /\ uiPhase = "injected"
    /\ dataPhase = "loaded"
    /\ searchListeners = 0

(***************************************************************************)
(* Claims about the markers.                                               *)
(***************************************************************************)
\* C19: once createSchoolMarkers has processed the whole school list, every
\* school has an entry in schoolMarkers under its key, the entry holds the
\* marker made for that school, whose schoolData is the school, and the
\* mapping has as many entries as there are schools.
EverySchoolHasItsOwnEntry ==
    dataPhase = "loaded" =>
        /\ \A i \in DOMAIN schoolsData :
               LET key == uniqueKey(schoolsData[i])
               IN  /\ key \in DOMAIN schoolMarkers
                   /\ schoolMarkers[key].marker = i
                   /\ schoolMarkers[key].school = schoolsData[i]
                   /\ layers[i].schoolData = schoolsData[i]
        /\ Cardinality(DOMAIN schoolMarkers) = Len(schoolsData)

(***************************************************************************)
(* Claims about the popup.                                                 *)
(***************************************************************************)
\* the numeral with one decimal that is nearest to hundredths / 100
OneDecimal(hundredths) ==
    LET below == hundredths \div 10
        tenths == IF hundredths - 10 * below >= 5 THEN below + 1 ELSE below
    IN  DecimalOf(tenths \div 10) \o <<".">> \o DecimalOf(tenths % 10)

BasertPaa == <<"b", "a", "s", "e", "r", "t", " ", "p", "å", " ">>

absent(score) == score.kind # "number"

\* C20: for a record with data the popup shows the stored average with one
\* decimal and the stored count of valid subjects as 'basert på N fag', and
\* '*' for every absent score.
PopupShowsStoredAverageAndCount ==
    (popupContent.made /\ popupSchool.hasData) =>
        LET shown == popupContent.html.current
        IN  /\ includes(shown.summary, OneDecimal(popupSchool.average))
            /\ includes(shown.summary,
                        BasertPaa \o DecimalOf(popupSchool.validScoresCount)
                            \o <<" ", "f", "a", "g">>)
            /\ absent(popupSchool.engelsk) => shown.engelsk = <<"*">>
            /\ absent(popupSchool.lesing) => shown.lesing = <<"*">>
            /\ absent(popupSchool.regning) => shown.regning = <<"*">>

\* the subjects of a history entry that carry a number
presentSubjects(h) ==
    {subject \in {"engelsk", "lesing", "regning"} : ~absent(h[subject])}

RECURSIVE SumOfSubjects(_, _)
SumOfSubjects(h, subjects) ==
    IF subjects = {} THEN 0
    ELSE LET subject == CHOOSE one \in subjects : TRUE
         IN  h[subject].value + SumOfSubjects(h, subjects \ {subject})

\* the mean of the present scores of a history entry with one decimal, '*'
\* when no score is present
MeanOfPresent(h) ==
    LET subjects == presentSubjects(h)
    IN  IF subjects = {} THEN <<"*">>
        ELSE OneDecimal((100 * SumOfSubjects(h, subjects)) \div Cardinality(subjects))

\* every row of the history table shows the mean of the present scores of
\* its entry
RowsShowMeanOfPresent ==
    popupContent.made =>
        /\ Len(popupContent.html.history) = Len(popupSchool.history)
        /\ \A k \in DOMAIN popupContent.html.history :
               \E i \in DOMAIN popupSchool.history :
                   /\ popupContent.html.history[k].year = popupSchool.history[i].year
                   /\ popupContent.html.history[k].avg =
                          MeanOfPresent(popupSchool.history[i])

\* C21 as stated: the history table has one row per entry, the years of the
\* rows descend strictly whatever the order of the entries in the record, and
\* every row shows the mean of the present scores of its entry.
HistoryRowsDescendByYear ==
    /\ RowsShowMeanOfPresent
    /\ popupContent.made =>
           \A k, l \in DOMAIN popupContent.html.history :
               k < l => popupContent.html.history[k].year
                            > popupContent.html.history[l].year

\* C21, amended: the history table has one row per entry, in the reverse of
\* the order of the entries in the record, so the years descend strictly
\* when the record lists its entries by ascending year; every row shows the
\* mean of the present scores of its entry, '*' when none is present.
HistoryRowsReverseTheRecord ==
    /\ RowsShowMeanOfPresent
    /\ popupContent.made =>
           LET rows == popupContent.html.history
               entries == popupSchool.history
           IN  /\ \A k \in DOMAIN rows :
                      /\ rows[k].year = entries[Len(entries) + 1 - k].year
                      /\ rows[k].avg = MeanOfPresent(entries[Len(entries) + 1 - k])
               /\ (\A i, j \in DOMAIN entries :
                       i < j => entries[i].year < entries[j].year)
                      => \A k, l \in DOMAIN rows :
                             k < l => rows[k].year > rows[l].year

\* the popup of a record whose history lists 2022, with one score missing,
\* and then 2023, with no score: the row of 2023 comes first and shows '*',
\* the row of 2022 shows the mean of its two scores
HistoryOfTwoYearsShown ==
    /\ popupContent.made
    /\ Len(popupSchool.history) = 2
    /\ popupSchool.history[1].year = 2022
    /\ popupSchool.history[2].year = 2023
    /\ popupContent.html.history[1].year = 2023
    /\ popupContent.html.history[1].avg = <<"*">>
    /\ popupContent.html.history[2].avg = <<"5", "0", ".", "5">>

(***************************************************************************)
(* Claims about the size of the cluster icon.                              *)
(***************************************************************************)
\* C22: the number on the cluster icon is the number of child markers, the
\* gray ones included, and the size class is small below 10 children,
\* medium from 10 to 99, large from 100 on, however many children the colour
\* left out.
CountAndSizeFromAllChildren ==
    icon.made =>
        /\ icon.childCount = Len(cluster)
        /\ icon.size \in {"small", "medium", "large"}
        /\ icon.size = "small" <=> Len(cluster) < 10
        /\ icon.size = "medium" <=> (Len(cluster) >= 10 /\ Len(cluster) < 100)
        /\ icon.size = "large" <=> Len(cluster) >= 100

\* the icon of a cluster of 100 markers of which 99 are gray: the colour
\* comes from one marker, the icon shows 100 and is large
LargeIconOfGrayCluster ==
    /\ icon.made
    /\ Len(cluster) = 100
    /\ icon.count = 1
    /\ icon.childCount = 100
    /\ icon.size = "large"

(***************************************************************************)
(* Claims about the legend.                                                *)
(***************************************************************************)
\* C23: the outside-click listener of the legend is registered only while
\* the panel is open: a closed panel has no listener on the document.
ClosedLegendHasNoListener ==
    legendDisplay # "block" => ~legendListener

(***************************************************************************)
(* Claims about the initialisation of the search.                          *)
(***************************************************************************)
\* C25: initializeSearch registers its listeners at most once: a call that
\* finds an element missing registers nothing and leaves a later call
\* scheduled, the call that finds the elements registers the listeners and
\* schedules nothing, nothing is scheduled once they are registered, and a
\* scheduled call that can find the elements leads to the listeners being
\* registered with nothing scheduled.
SearchListenersRegisteredOnce ==
    /\ [](/\ searchListeners <= 1
          /\ (dataPhase = "loaded" /\ ~initRetry) => searchListeners = 1)
    /\ [][/\ ~searchElems => searchListeners' = searchListeners
          /\ (dataPhase = "parsing" /\ dataPhase' = "loaded" /\ ~searchElems) =>
                 initRetry'
          /\ (initRetry /\ ~searchElems) => initRetry'
          /\ searchListeners' # searchListeners =>
                 /\ searchElems
                 /\ searchListeners' = 1
                 /\ ~initRetry'
          /\ searchListeners = 1 => (searchListeners' = 1 /\ ~initRetry')]_vars
    /\ (initRetry /\ searchElems) ~> (searchListeners = 1 /\ ~initRetry)

\* the load found the search elements missing, they appeared with the UI
\* fragment, and a later call of initializeSearch has registered the
\* listeners
ListenersRegisteredAfterLoad ==
    /\ dataPhase = "loaded"
    /\ uiPhase = "injected"
    /\ searchElems
    /\ searchListeners = 1
    /\ ~initRetry

(***************************************************************************)
(* Claims about what the results container shows.                          *)
(***************************************************************************)
\* C26: whenever the results container is visible, the trimmed value of the
\* search input has at least 2 characters and the container holds what
\* performSearch renders for that value.
VisibleResultsAreCurrent ==
    resultsVisible =>
        LET query == trim(inputValue)
        IN  /\ Len(query) >= 2
            /\ results = renderResults(schoolsData,
                                       matchingSchools(schoolsData, query), query)

(***************************************************************************)
(* Claims about a load that throws.                                        *)
(***************************************************************************)
\* C27: when the load continuation has thrown, the alert was shown once and
\* nothing of the load is left: schoolsData, schoolMarkers, the year tag and
\* the map view are as before the load, the cluster group is not on the map
\* and the search is not initialized.
ThrowLeavesNoPartialEffect ==
    dataPhase = "threw" =>
        /\ alerts = 1
        /\ schoolsData = <<>>
        /\ schoolMarkers = EmptyMap
        /\ yearTag = <<>>
        /\ mapView = InitialView
        /\ ~clusterOnMap
        /\ searchListeners = 0
        /\ ~initRetry

(***************************************************************************)
(* Claims about selections that follow each other.                         *)
(***************************************************************************)
\* C24: when a school was selected while the settling timer of an earlier
\* selection was pending, then once every timer and every zoomToShowLayer
\* callback has run the view is on the later school and the open popup is
\* the later school's.
LaterSelectionWins ==
    (/\ lastNav.kind = "zoomed"
     /\ lastNav.overtakes
     /\ timers = <<>>
     /\ reveals = <<>>) =>
        /\ popup = lastNav.target
        /\ mapView = [center |-> <<layers[lastNav.target].schoolData.lat,
                                   layers[lastNav.target].schoolData.lng>>,
                      zoom |-> 15]

====
